---- MODULE Spec2Model ----
(***************************************************************************)
(* Model of the health-coach agent: the plan store (tools.py), the metrics *)
(* calculator (tools.py) and the LangGraph controller (run_agent.py).      *)
(*                                                                         *)
(* Units.  weight_kg is carried in tenths of a kilogram (the mock log      *)
(* provider rounds to one decimal), height in cm, age in years, activity   *)
(* factors in thousandths.  Kilocalorie results are whole numbers, as the  *)
(* code rounds them.                                                       *)
(***************************************************************************)
EXTENDS Integers, Sequences, FiniteSets, TLC

VARIABLES
    plans,      \* the "plans" collection, in natural (insertion) order
    dbClient,   \* tools._db_client: "None" or "client"
    uriSet,     \* whether MONGODB_URI is set in the environment
    clock,      \* datetime.now(), as a counter
    started,    \* number of run_agent_loop invocations so far
    pc,         \* per run: the graph node (or save step) it is about to execute
    state,      \* per run: the AgentState threaded through the nodes
    pending,    \* per run: locals of planning_agent_node / save_user_plan in flight
    hist,       \* per run: history of the run (what happened in it so far)
    saves,      \* per user: history of the save_user_plan calls that returned
    calc,       \* calculate_metrics called on its own: the arguments and results
    conn        \* get_mongo_client called on its own: the calls made so far

vars == <<plans, dbClient, uriSet, clock, started, pc, state, pending, hist, saves,
          calc, conn>>

----------------------------------------------------------------------------
(* Bounds of the model *)

MaxRuns == 3            \* run_agent_loop invocations explored

Runs == {"r1", "r2"}    \* invocations that may be in progress at the same time
Users == {"kiit0001", "u2"}
PlanTitles == {"pA", "pB"}      \* the plans the Planning Engine may return

----------------------------------------------------------------------------
(* Values *)

None == [is_none |-> TRUE]

NoReport == [text |-> "None", nums |-> <<>>, err |-> ""]

Report(text) == [text |-> text, nums |-> <<>>, err |-> ""]

\* models.HealthPlan, reduced to the fields that identify it
HealthPlan(title) == [plan_title |-> title, duration_days |-> 7]

AllLogFields == {"weight_kg", "calories_consumed", "steps"}

DailyLog(w, c, s) ==
    [fields |-> AllLogFields, weight_type |-> "number",
     weight_kg |-> w, calories_consumed |-> c, steps |-> s]

\* agent.USER_PROFILE
USER_PROFILE ==
    [user_id |-> "kiit0001", gender |-> "male", age_years |-> 30,
     height_cm |-> 175, activity_level |-> "moderately active"]

----------------------------------------------------------------------------
(* tools.py: metrics calculator *)

MALE_ADJUST == 5
FEMALE_ADJUST == 0 - 161
DefaultFactor == 1550
TargetDeficit == 500
StepsThreshold == 5000

\* ACTIVITY_FACTORS.get(activity_level.lower(), 1.55), in thousandths.
\* Levels are given lower-cased.
ActivityFactor(level) ==
    CASE level = "sedentary" -> 1200
      [] level = "lightly active" -> 1375
      [] level = "moderately active" -> DefaultFactor
      [] level = "very active" -> 1725
      [] OTHER -> DefaultFactor

\* Python round(x, 0) of the rational n/d (d > 0): nearest whole number,
\* a tie going to the even one.
Round(n, d) ==
    LET q == n \div d
        r == n % d
    IN  IF 2 * r < d THEN q
        ELSE IF 2 * r > d THEN q + 1
        ELSE IF q % 2 = 0 THEN q ELSE q + 1

\* gender.lower() == 'male' / 'female'; genders are given lower-cased.
GenderAdjust(gender) ==
    CASE gender = "male" -> MALE_ADJUST
      [] gender = "female" -> FEMALE_ADJUST
      [] OTHER -> 0

\* calculate_metrics.  w10 is weight_kg in tenths; wtype says whether the value
\* is an int/float at all.  bmr is carried times 100, tdee times 100000.
calculate_metrics(w10, wtype, height_cm, age_years, gender, activity_level) ==
    IF ~(wtype = "number" /\ w10 > 0 /\ height_cm > 0 /\ age_years > 0)
    THEN [ok |-> FALSE, error |-> "ValueError"]
    ELSE
        LET bmr100 == 100 * w10 + 625 * height_cm - 500 * age_years
                        + 100 * GenderAdjust(gender)
            factor == ActivityFactor(activity_level)
            tdee == bmr100 * factor
            target_maintain == Round(tdee, 100000)
            target_lose == Round(tdee - TargetDeficit * 100000, 100000)
        IN  [ok |-> TRUE,
             bmr_kcal |-> target_maintain - TargetDeficit,
             tdee_kcal |-> target_maintain,
             target_weight_loss_kcal |-> target_lose,
             activity_factor_used |-> factor]

----------------------------------------------------------------------------
(* tools.py: storage connection *)

\* Mutant of get_mongo_client: the handle assigned before the ping is not
\* reset when the ping fails.
get_mongo_client_keeps_handle(client, uri) ==
    IF client # "None"
    THEN {[ok |-> TRUE, client |-> client, error |-> "", attempted |-> FALSE]}
    ELSE IF ~uri
    THEN {[ok |-> FALSE, client |-> "None", error |-> "ValueError",
           attempted |-> FALSE]}
    ELSE {[ok |-> TRUE, client |-> "client", error |-> "", attempted |-> TRUE],
          [ok |-> FALSE, client |-> "client", error |-> "ConnectionError",
           attempted |-> TRUE]}

\* get_mongo_client: the outcomes of one call.  ok = the client is returned;
\* otherwise the call raises (ValueError without a URI, ConnectionError when
\* the connection or the ping fails).  attempted = MongoClient(...) was
\* constructed and pinged in this call.
get_mongo_client(client, uri) ==
    IF client # "None"
    THEN {[ok |-> TRUE, client |-> client, error |-> "", attempted |-> FALSE]}
    ELSE IF ~uri
    THEN {[ok |-> FALSE, client |-> "None", error |-> "ValueError",
           attempted |-> FALSE]}
    ELSE {[ok |-> TRUE, client |-> "client", error |-> "", attempted |-> TRUE],
          [ok |-> FALSE, client |-> "None", error |-> "ConnectionError",
           attempted |-> TRUE]}

\* A round trip to the server either returns or raises.
QueryOutcomes == {"ok", "error"}

----------------------------------------------------------------------------
(* tools.py: plan store *)

ActiveOf(coll, u) ==
    {i \in DOMAIN coll : coll[i].user_id = u /\ coll[i].is_active}

\* json.loads(json_util.dumps(plan_document)): the ObjectId and the datetime
\* become extended-JSON wrappers, every other field is kept.
clean_plan(doc) ==
    [_id |-> [oid |-> doc._id],
     user_id |-> doc.user_id,
     created_at |-> [date |-> doc.created_at],
     is_active |-> doc.is_active,
     plan_title |-> doc.plan_title,
     duration_days |-> doc.duration_days]

\* find_one({"user_id": u, "is_active": True}): no sort is given, so any
\* matching document may be the one returned; None when nothing matches.
find_one_active(coll, u) ==
    IF ActiveOf(coll, u) = {} THEN {None}
    ELSE {coll[i] : i \in ActiveOf(coll, u)}

\* load_active_plan: the outcomes of one call.  Every exception (no client,
\* failed query) is caught and None is returned: failed records that the
\* storage failed, raised names the exception that reaches the caller (none).
load_active_plan(coll, client, uri, u) ==
    UNION {
        IF ~c.ok
        THEN {[client |-> c.client, result |-> None, failed |-> TRUE,
               raised |-> ""]}
        ELSE {[client |-> c.client, result |-> None, failed |-> TRUE,
               raised |-> ""]}
             \cup {[client |-> c.client,
                    result |-> IF d = None THEN None ELSE clean_plan(d),
                    failed |-> FALSE,
                    raised |-> ""] : d \in find_one_active(coll, u)}
        : c \in get_mongo_client(client, uri)}

\* Mutant of update_many_deactivate: the filter lacks the user_id.
update_many_all_users(coll, u) ==
    [i \in DOMAIN coll |->
        IF coll[i].is_active
        THEN [coll[i] EXCEPT !.is_active = FALSE]
        ELSE coll[i]]

\* Mutant of update_many_deactivate: the update leaves is_active as it is.
update_many_noop(coll, u) == coll

\* update_many({"user_id": u, "is_active": True}, {"$set": {"is_active": False}})
update_many_deactivate(coll, u) ==
    [i \in DOMAIN coll |->
        IF coll[i].user_id = u /\ coll[i].is_active
        THEN [coll[i] EXCEPT !.is_active = FALSE]
        ELSE coll[i]]

\* insert_one(plan_data): the document gets a fresh _id and goes last.
insert_one(coll, plan_dict) ==
    Append(coll, [_id |-> Len(coll) + 1,
                  user_id |-> plan_dict.user_id,
                  created_at |-> plan_dict.created_at,
                  is_active |-> plan_dict.is_active,
                  plan_title |-> plan_dict.plan_title,
                  duration_days |-> plan_dict.duration_days])

\* get_daily_logs: the mock provider seeds its generator with the user and the
\* date, so within a day a user's log is fixed; it draws weight 84.0..86.0,
\* calories 2000..2600 and steps 6000..14000.  The two users get the two
\* opposite corners of these ranges.  It has no failing path.
get_daily_logs(u) ==
    IF u = "kiit0001" THEN {DailyLog(840, 2000, 6000)}
                      ELSE {DailyLog(860, 2600, 14000)}

----------------------------------------------------------------------------
(* run_agent.py: the nodes *)

\* initial_state of run_agent_loop
initial_state(u) ==
    [user_id |-> u,
     replan_needed |-> FALSE,
     current_plan |-> None,
     progress_report |-> NoReport,
     logs_data |-> None,
     plan_data |-> None,
     llm_context |-> <<>>]

\* fetch_data_node, given what load_active_plan did (out) and the log.
\* The two except branches run when an exception reaches the node
\* (out.raised); load_active_plan and get_daily_logs let none through.
fetch_data_node(st, out, logs) ==
    IF out.raised = "ConnectionError"
    THEN [st EXCEPT !.replan_needed = FALSE,
                    !.progress_report =
                        Report("FATAL ERROR: Database connection failed.")]
    ELSE IF out.raised # ""
    THEN [st EXCEPT !.replan_needed = FALSE,
                    !.progress_report =
                        Report("FATAL ERROR: Data fetching failed.")]
    ELSE [st EXCEPT !.current_plan = out.result,
                    !.logs_data = logs,
                    !.llm_context =
                        <<"USER PROFILE",
                          IF out.result = None THEN "CURRENT ACTIVE PLAN: None"
                                               ELSE "CURRENT ACTIVE PLAN",
                          "TODAY'S LOGS">>]

MetricFailedReport ==
    Report("FATAL: Metric calculation failed. Forcing replan to establish new base.")

\* Mutant of metric_failure: the except branch keeps the plan.
metric_failure_keeps_plan == [replan |-> FALSE, report |-> MetricFailedReport]

\* the except branch of evaluate_progress_node
metric_failure == [replan |-> TRUE, report |-> MetricFailedReport]

\* Mutant of calories_over: the 20% tolerance is missing.
calories_over_target(calories, target) == calories > target

\* Mutant of calories_over: >= for >.
calories_over_or_equal(calories, target) == 5 * calories >= 6 * target

\* logs['calories_consumed'] > target_calories * 1.2.  Both are whole
\* numbers, so the comparison is 5 * calories > 6 * target.
calories_over(calories, target) == 5 * calories > 6 * target

\* logs['steps'] < 5000
steps_low(steps) == steps < StepsThreshold

\* The try block of evaluate_progress_node (current_plan is not None).
\* logs['weight_kg'] is read first (TypeError on None, KeyError when missing),
\* then calculate_metrics, then logs['calories_consumed'], then logs['steps'];
\* every exception ends in the except branch.
evaluate_with_plan(logs) ==
    IF logs = None \/ "weight_kg" \notin logs.fields
    THEN metric_failure
    ELSE
        LET metrics == calculate_metrics(logs.weight_kg, logs.weight_type,
                                         USER_PROFILE.height_cm,
                                         USER_PROFILE.age_years,
                                         USER_PROFILE.gender,
                                         "moderately active")
        IN  IF ~metrics.ok \/ "calories_consumed" \notin logs.fields
            THEN metric_failure
            ELSE
                LET target_calories == metrics.target_weight_loss_kcal
                IN  IF calories_over(logs.calories_consumed, target_calories)
                    THEN [replan |-> TRUE,
                          report |-> [text |-> "Compliance Alert",
                                      nums |-> <<logs.calories_consumed,
                                                 target_calories>>,
                                      err |-> ""]]
                    ELSE IF "steps" \notin logs.fields
                    THEN metric_failure
                    ELSE IF steps_low(logs.steps)
                    THEN [replan |-> TRUE,
                          report |-> [text |-> "Activity Alert",
                                      nums |-> <<logs.steps>>,
                                      err |-> ""]]
                    ELSE [replan |-> FALSE,
                          report |-> Report("Progress is adequate. Maintaining current plan.")]

\* The decision of evaluate_progress_node
evaluate(current_plan, logs) ==
    IF current_plan = None
    THEN [replan |-> TRUE,
          report |-> Report("No active plan found. Initial plan required.")]
    ELSE evaluate_with_plan(logs)

evaluate_progress_node(st) ==
    LET res == evaluate(st.current_plan, st.logs_data)
    IN  [st EXCEPT !.progress_report = res.report,
                   !.replan_needed = res.replan,
                   !.llm_context = Append(st.llm_context, res.report.text)]

\* Mutant of route_after_evaluate: an unconditional edge to planning_agent.
route_always_replan(st) == "planning_agent"

\* add_conditional_edges("evaluate_progress", ...)
route_after_evaluate(st) ==
    IF st.replan_needed THEN "planning_agent" ELSE "END"

\* What agent_chain.invoke may do: return a HealthPlan, raise an API error,
\* or fail on output that does not match the schema.
LLMOutcomes ==
    {[kind |-> "plan", payload |-> HealthPlan(t), err |-> ""] : t \in PlanTitles}
    \cup {[kind |-> "error", payload |-> HealthPlan(""), err |-> "RateLimitError"],
          [kind |-> "malformed", payload |-> HealthPlan("malformed"),
           err |-> "ValidationError"]}

\* Mutant of reaches_save: a response that fails the schema is saved too.
reaches_save_unvalidated(outcome) == outcome.kind \in {"plan", "malformed"}

\* planning_agent_node after agent_chain.invoke: only a returned plan reaches
\* save_user_plan; every exception goes to the except branch.
reaches_save(outcome) == outcome.kind = "plan"

\* Mutant of planning_failed: the except branch does not reset the flag.
planning_failed_keeps_flag(st, err) ==
    [st EXCEPT !.progress_report =
                   [text |-> "FATAL ERROR: Planning failed due to: ",
                    nums |-> <<>>, err |-> err],
               !.plan_data = None]

\* the except branch of planning_agent_node
planning_failed(st, err) ==
    [st EXCEPT !.replan_needed = FALSE,
               !.progress_report =
                   [text |-> "FATAL ERROR: Planning failed due to: ",
                    nums |-> <<>>, err |-> err],
               !.plan_data = None]

\* planning_agent_node after save_user_plan returned its message
\* (save_result is only logged).
planning_saved(st, result, save_result) ==
    [st EXCEPT !.replan_needed = FALSE,
               !.plan_data = result]

----------------------------------------------------------------------------
(* History of a run and of the store, for stating the properties *)

NoHist ==
    [visited |-> <<>>, load_failed |-> FALSE, load_saw_active |-> FALSE,
     eval_done |-> FALSE, eval_replan |-> FALSE,
     llm_calls |-> 0, llm_outcome |-> "none",
     save_calls |-> 0, save_result |-> "none"]

NoPending == [result |-> None, plan_dict |-> None]

IdleState == initial_state("")

\* calculate_metrics has not been called on its own.
NoCalc == [weight_kg |-> 0, height_cm |-> 0, age_years |-> 0,
           activity_level |-> "", results |-> {}]

\* No save_user_plan call for the user has returned yet.
NoSaves == [called |-> FALSE, last |-> "none", orphaned |-> FALSE]

----------------------------------------------------------------------------
(* The state machine *)

Init ==
    /\ plans = <<>>
    /\ dbClient = "None"
    /\ uriSet \in BOOLEAN
    /\ clock = 0
    /\ started = 0
    /\ pc = [r \in Runs |-> "idle"]
    /\ state = [r \in Runs |-> IdleState]
    /\ pending = [r \in Runs |-> NoPending]
    /\ hist = [r \in Runs |-> NoHist]
    /\ saves = [u \in Users |-> NoSaves]
    /\ calc = NoCalc
    /\ conn = <<>>

Visit(h, node) == [h EXCEPT !.visited = Append(h.visited, node)]

\* run_agent_loop(u) is called: the graph is entered at fetch_data.
Start(r, u) ==
    /\ pc[r] = "idle"
    /\ started < MaxRuns
    /\ started' = started + 1
    /\ pc' = [pc EXCEPT ![r] = "fetch_data"]
    /\ state' = [state EXCEPT ![r] = initial_state(u)]
    /\ hist' = [hist EXCEPT ![r] = NoHist]
    /\ UNCHANGED <<plans, dbClient, uriSet, clock, pending, saves, calc, conn>>

\* Node fetch_data, then the edge fetch_data -> evaluate_progress.
FetchData(r) ==
    /\ pc[r] = "fetch_data"
    /\ \E out \in load_active_plan(plans, dbClient, uriSet, state[r].user_id),
          logs \in get_daily_logs(state[r].user_id) :
        /\ dbClient' = out.client
        /\ state' = [state EXCEPT ![r] = fetch_data_node(state[r], out, logs)]
        /\ hist' = [hist EXCEPT ![r] =
                        [Visit(hist[r], "fetch_data") EXCEPT
                            !.load_failed = out.failed,
                            !.load_saw_active =
                                ActiveOf(plans, state[r].user_id) # {}]]
    /\ pc' = [pc EXCEPT ![r] = "evaluate_progress"]
    /\ UNCHANGED <<plans, uriSet, clock, started, pending, saves, calc, conn>>

\* Node evaluate_progress, then the conditional edge.
EvaluateProgress(r) ==
    /\ pc[r] = "evaluate_progress"
    /\ LET st == evaluate_progress_node(state[r])
       IN  /\ state' = [state EXCEPT ![r] = st]
           /\ pc' = [pc EXCEPT ![r] = route_after_evaluate(st)]
           /\ hist' = [hist EXCEPT ![r] =
                        [Visit(hist[r], "evaluate_progress") EXCEPT
                            !.eval_done = TRUE,
                            !.eval_replan = st.replan_needed]]
    /\ UNCHANGED <<plans, dbClient, uriSet, clock, started, pending, saves, calc, conn>>

\* Node planning_agent up to the call of save_user_plan: the LLM call, and on
\* an exception the except branch and the edge planning_agent -> END.
PlanningAgent(r) ==
    /\ pc[r] = "planning_agent"
    /\ \E o \in LLMOutcomes :
        /\ hist' = [hist EXCEPT ![r] =
                        [Visit(hist[r], "planning_agent") EXCEPT
                            !.llm_calls = @ + 1,
                            !.llm_outcome = o.kind]]
        /\ IF reaches_save(o)
           THEN /\ pending' = [pending EXCEPT ![r] =
                                [result |-> o.payload, plan_dict |-> o.payload]]
                /\ pc' = [pc EXCEPT ![r] = "save_update_many"]
                /\ UNCHANGED state
           ELSE /\ state' = [state EXCEPT ![r] = planning_failed(state[r], o.err)]
                /\ pc' = [pc EXCEPT ![r] = "END"]
                /\ UNCHANGED pending
    /\ UNCHANGED <<plans, dbClient, uriSet, clock, started, saves, calc, conn>>

\* save_user_plan returns its message (stage: "ok", or the step that raised);
\* planning_agent_node stores the result and the edge planning_agent -> END
\* is taken.  h is the run's history up to here.
SaveReturns(r, h, save_result, stage) ==
    /\ state' = [state EXCEPT ![r] =
                    planning_saved(state[r], pending[r].result, save_result)]
    /\ hist' = [hist EXCEPT ![r] = [h EXCEPT !.save_result = save_result]]
    /\ saves' = [saves EXCEPT ![state[r].user_id] =
                    [called |-> TRUE,
                     last |-> stage,
                     orphaned |-> IF stage = "insert_one" THEN TRUE
                                  ELSE IF stage = "ok" THEN FALSE
                                  ELSE @.orphaned]]
    /\ pending' = [pending EXCEPT ![r] = NoPending]
    /\ pc' = [pc EXCEPT ![r] = "END"]

SaveFailed == "ERROR: Plan save failed."
SaveOk == "Plan saved successfully"

\* save_user_plan is called; it runs up to and including update_many.
SaveUpdateMany(r) ==
    /\ pc[r] = "save_update_many"
    /\ LET h == [hist[r] EXCEPT !.save_calls = @ + 1]
       IN  \E c \in get_mongo_client(dbClient, uriSet), q \in QueryOutcomes :
            /\ dbClient' = c.client
            /\ IF ~c.ok
               THEN /\ SaveReturns(r, h, SaveFailed, "get_collection")
                    /\ UNCHANGED <<plans, clock>>
               ELSE /\ clock' = clock + 1
                    /\ IF q = "error"
                       THEN /\ SaveReturns(r, h, SaveFailed, "update_many")
                            /\ UNCHANGED plans
                       ELSE /\ plans' = update_many_deactivate(plans, state[r].user_id)
                            /\ pending' = [pending EXCEPT ![r].plan_dict =
                                    [user_id |-> state[r].user_id,
                                     created_at |-> clock,
                                     is_active |-> TRUE,
                                     plan_title |-> pending[r].result.plan_title,
                                     duration_days |-> pending[r].result.duration_days]]
                            /\ hist' = [hist EXCEPT ![r] = h]
                            /\ pc' = [pc EXCEPT ![r] = "save_insert_one"]
                            /\ UNCHANGED <<state, saves>>
    /\ UNCHANGED <<uriSet, started, calc, conn>>

\* save_user_plan from insert_one on.
SaveInsertOne(r) ==
    /\ pc[r] = "save_insert_one"
    /\ \E q \in QueryOutcomes :
        IF q = "error"
        THEN /\ SaveReturns(r, hist[r], SaveFailed, "insert_one")
             /\ UNCHANGED plans
        ELSE /\ plans' = insert_one(plans, pending[r].plan_dict)
             /\ SaveReturns(r, hist[r], SaveOk, "ok")
    /\ UNCHANGED <<dbClient, uriSet, clock, started, calc, conn>>

\* run_agent_loop returns final_state.
Return(r) ==
    /\ pc[r] = "END"
    /\ pc' = [pc EXCEPT ![r] = "idle"]
    /\ state' = [state EXCEPT ![r] = IdleState]
    /\ hist' = [hist EXCEPT ![r] = NoHist]
    /\ UNCHANGED <<plans, dbClient, uriSet, clock, started, pending, saves, calc, conn>>

RunStep(r) ==
    \/ FetchData(r)
    \/ EvaluateProgress(r)
    \/ PlanningAgent(r)
    \/ SaveUpdateMany(r)
    \/ SaveInsertOne(r)

Next ==
    \/ \E r \in Runs, u \in Users : Start(r, u)
    \/ \E r \in Runs : FetchData(r)
    \/ \E r \in Runs : EvaluateProgress(r)
    \/ \E r \in Runs : PlanningAgent(r)
    \/ \E r \in Runs : SaveUpdateMany(r)
    \/ \E r \in Runs : SaveInsertOne(r)
    \/ \E r \in Runs : Return(r)

\* Runs of any users, interleaved at every storage round trip.
Spec == Init /\ [][Next]_vars

\* Runs executed to completion one after another: a run takes a step only
\* while no other run is in progress.
Alone(r) == \A q \in Runs \ {r} : pc[q] \in {"idle", "END"}

NextSeq ==
    \/ \E r \in Runs, u \in Users : Alone(r) /\ Start(r, u)
    \/ \E r \in Runs : Alone(r) /\ FetchData(r)
    \/ \E r \in Runs : Alone(r) /\ EvaluateProgress(r)
    \/ \E r \in Runs : Alone(r) /\ PlanningAgent(r)
    \/ \E r \in Runs : Alone(r) /\ SaveUpdateMany(r)
    \/ \E r \in Runs : Alone(r) /\ SaveInsertOne(r)
    \/ \E r \in Runs : Alone(r) /\ Return(r)

SpecSeq == Init /\ [][NextSeq]_vars

\* Every call a node makes returns or raises, so a run that has been started
\* keeps taking steps until it is at END.
MaxFairRuns == 2        \* invocations explored under fairness

NextFair == Next /\ started' <= MaxFairRuns

FairSpec ==
    Init /\ [][NextFair]_vars /\ \A r \in Runs : WF_vars(NextFair /\ RunStep(r))

----------------------------------------------------------------------------
(* evaluate_progress_node applied to arbitrary plans and logs *)

EvalWeights == {0, 664, 850}
EvalCalories == {1900, 2400, 2401, 2745, 2746, 3200}
EvalSteps == {3000, 4999, 5000, 8000}

EvalLogs ==
    {None} \cup
    {[fields |-> AllLogFields \ missing, weight_type |-> wt,
      weight_kg |-> w, calories_consumed |-> c, steps |-> s] :
        missing \in {{}, {"weight_kg"}, {"calories_consumed"}, {"steps"}},
        wt \in {"number", "other"},
        w \in EvalWeights, c \in EvalCalories, s \in EvalSteps}

EvalPlans ==
    {None,
     clean_plan([_id |-> 1, user_id |-> "kiit0001", created_at |-> 0,
                 is_active |-> TRUE, plan_title |-> "pA", duration_days |-> 7])}

\* A run that has left fetch_data with any current plan and any log.
InitEval ==
    /\ plans = <<>>
    /\ dbClient = "None"
    /\ uriSet = TRUE
    /\ clock = 0
    /\ started = 1
    /\ pending = [r \in Runs |-> NoPending]
    /\ saves = [u \in Users |-> NoSaves]
    /\ calc = NoCalc
    /\ conn = <<>>
    /\ \E p \in EvalPlans, l \in EvalLogs :
        /\ pc = [r \in Runs |-> IF r = "r1" THEN "evaluate_progress" ELSE "idle"]
        /\ state = [r \in Runs |->
                      IF r = "r1"
                      THEN [initial_state("kiit0001") EXCEPT
                                !.current_plan = p,
                                !.logs_data = l,
                                !.llm_context = <<"USER PROFILE",
                                                  "CURRENT ACTIVE PLAN",
                                                  "TODAY'S LOGS">>]
                      ELSE IdleState]
        /\ hist = [r \in Runs |->
                      IF r = "r1" THEN Visit(NoHist, "fetch_data") ELSE NoHist]

NextEval == \E r \in Runs : EvaluateProgress(r)

SpecEval == InitEval /\ [][NextEval]_vars

----------------------------------------------------------------------------
(* Properties *)

ActiveCount(u) == Cardinality(ActiveOf(plans, u))

PlansOf(u) == {i \in DOMAIN plans : plans[i].user_id = u}

\* No save_user_plan call for u is between its start and its return.
SaveIdle(u) ==
    \A r \in Runs :
        state[r].user_id = u => pc[r] \notin {"save_update_many", "save_insert_one"}

IsFatalError(report) ==
    report.text \in {"FATAL ERROR: Database connection failed.",
                     "FATAL ERROR: Data fetching failed.",
                     "FATAL ERROR: Planning failed due to: "}

Visited(r, node) == \E i \in DOMAIN hist[r].visited : hist[r].visited[i] = node

\* C1: at every moment at most one stored plan per user has is_active = true,
\* also while two runs of the same user interleave their update_many and
\* insert_one steps.
C1_AtMostOneActive == \A u \in Users : ActiveCount(u) <= 1

\* C2 (as stated): after any non-empty sequence of save_plan(u, *) calls run one
\* after another, u has exactly one active plan, or none when a deactivation
\* was followed by a failed insert.
C2_OneActiveAfterSaves ==
    \A u \in Users :
        (saves[u].called /\ SaveIdle(u)) =>
            \/ ActiveCount(u) = 1
            \/ ActiveCount(u) = 0 /\ saves[u].orphaned

\* C2 (amended): with the calls run one after another, u never has more than
\* one active plan; between calls it has exactly one if some call has
\* succeeded and no later call failed at its insert after deactivating, and
\* none otherwise (no call has succeeded yet, or a deactivation was followed
\* by a failed insert).
C2_OneActiveUnlessNoneSaved ==
    \A u \in Users :
        /\ ActiveCount(u) <= 1
        /\ SaveIdle(u) =>
            ActiveCount(u) = IF PlansOf(u) # {} /\ ~saves[u].orphaned THEN 1 ELSE 0
        /\ (SaveIdle(u) /\ saves[u].last = "ok") => ActiveCount(u) = 1

\* C2 witness: a second save for the same user has deactivated the first plan.
C2_SecondSaveDone ==
    \E u \in Users :
        /\ saves[u].last = "ok" /\ SaveIdle(u)
        /\ Cardinality(PlansOf(u)) >= 2
        /\ ActiveCount(u) = 1

\* The plan of the save_plan(u, P) call that succeeded last.
LastSaved(u) == plans[CHOOSE i \in PlansOf(u) : \A j \in PlansOf(u) : j <= i]

\* C3: when the last save_plan(u, P) succeeded and no other save for u came
\* after it, load_active_plan(u) in fetch_data returns P with its metadata.
C3_SaveThenLoad ==
    [][\A r \in Runs :
        (/\ pc[r] = "fetch_data" /\ pc'[r] = "evaluate_progress"
         /\ saves[state[r].user_id].last = "ok"
         /\ SaveIdle(state[r].user_id))
        => state'[r].current_plan = clean_plan(LastSaved(state[r].user_id))]_vars

\* C4: when the Plan Store fails during FETCH the run goes straight to DONE:
\* no EVALUATE, no Planning Engine call, no save, replan_needed = false and a
\* report that starts with "FATAL ERROR:".
C4_FetchFailureEndsRun ==
    \A r \in Runs :
        (pc[r] = "END" /\ hist[r].load_failed) =>
            /\ ~Visited(r, "evaluate_progress")
            /\ ~Visited(r, "planning_agent")
            /\ hist[r].llm_calls = 0
            /\ hist[r].save_calls = 0
            /\ ~state[r].replan_needed
            /\ IsFatalError(state[r].progress_report)

\* C5: after the load in FETCH, the caller holds "no plan" only if no active
\* plan existed, and a storage failure has been signalled to it as a failure.
C5_LoadFailureIsNotNoPlan ==
    \A r \in Runs :
        hist[r].visited = <<"fetch_data">> =>
            /\ (state[r].current_plan = None
                    /\ ~IsFatalError(state[r].progress_report))
                => ~hist[r].load_saw_active
            /\ hist[r].load_failed => IsFatalError(state[r].progress_report)

\* C6: a run whose REPLAN failed (engine error, malformed response or failed
\* save) ends with new_plan absent and the "Planning failed" report; new_plan
\* is present at the end only when the plan was persisted.
C6_FailedReplanHasNoPlan ==
    \A r \in Runs :
        (pc[r] = "END" /\ Visited(r, "planning_agent")) =>
            /\ (hist[r].llm_outcome # "plan" \/ hist[r].save_result # SaveOk)
                => /\ state[r].plan_data = None
                   /\ state[r].progress_report.text
                        = "FATAL ERROR: Planning failed due to: "
            /\ state[r].plan_data # None => hist[r].save_result = SaveOk

\* C7: a run calls save_user_plan exactly once when REPLAN ran and the
\* Planning Engine returned a schema-conforming plan, and never otherwise.
C7_OneSavePerPlan ==
    \A r \in Runs :
        /\ hist[r].save_calls <= 1
        /\ pc[r] = "END" =>
            hist[r].save_calls =
                IF Visited(r, "planning_agent") /\ hist[r].llm_outcome = "plan"
                THEN 1 ELSE 0

\* C7 witness: a run that replanned, got a plan and called save once.
C7_RunSavedOnce ==
    \E r \in Runs :
        /\ pc[r] = "END" /\ hist[r].llm_outcome = "plan"
        /\ hist[r].save_calls = 1

\* EVALUATE has just run in run r.
Evaluated(r) == hist[r].visited = <<"fetch_data", "evaluate_progress">>

\* The log has every field and a weight calculate_metrics accepts.
UsableLog(logs) ==
    /\ logs # None
    /\ logs.fields = AllLogFields
    /\ logs.weight_type = "number"
    /\ logs.weight_kg > 0

\* target_weight_loss_kcal for the fixed profile and the logged weight
TargetFor(logs) ==
    calculate_metrics(logs.weight_kg, logs.weight_type, USER_PROFILE.height_cm,
                      USER_PROFILE.age_years, USER_PROFILE.gender,
                      USER_PROFILE.activity_level).target_weight_loss_kcal

\* C8: EVALUATE decides in this order: no current plan -> replan with the
\* "No active plan found" report; calories > 1.2 x target -> replan with the
\* compliance alert (whatever the steps); steps < 5000 -> replan with the
\* activity alert; otherwise no replan and "Progress is adequate".  Calories
\* equal to 1.2 x target and steps equal to 5000 do not trigger a replan.
C8_EvaluateDecision ==
    \A r \in Runs :
        Evaluated(r) =>
            LET st == state[r]
                logs == st.logs_data
                rep == st.progress_report
            IN  IF st.current_plan = None
                THEN /\ st.replan_needed
                     /\ rep = Report("No active plan found. Initial plan required.")
                ELSE UsableLog(logs) =>
                    LET c == logs.calories_consumed
                        t == TargetFor(logs)
                    IN  /\ logs.weight_kg = 664 => t = 2000
                        /\ logs.weight_kg = 850 => t = 2288
                        /\ IF 10 * c > 12 * t
                           THEN /\ st.replan_needed
                                /\ rep.text = "Compliance Alert"
                                /\ rep.nums = <<c, t>>
                           ELSE IF logs.steps < 5000
                           THEN /\ st.replan_needed
                                /\ rep.text = "Activity Alert"
                                /\ rep.nums = <<logs.steps>>
                           ELSE /\ ~st.replan_needed
                                /\ rep = Report("Progress is adequate. Maintaining current plan.")

\* C8 witness: a plan is present, calories are exactly 1.2 x target
\* (2400 = 1.2 x 2000) and steps are exactly 5000: the plan is kept.
C8_BoundaryKeepsPlan ==
    \E r \in Runs :
        /\ Evaluated(r)
        /\ state[r].current_plan # None
        /\ UsableLog(state[r].logs_data)
        /\ state[r].logs_data.weight_kg = 664
        /\ state[r].logs_data.calories_consumed = 2400
        /\ state[r].logs_data.steps = 5000
        /\ ~state[r].replan_needed

\* The metrics computation or the comparison raises on this log.
MetricsFail(logs) ==
    \/ logs = None
    \/ "weight_kg" \notin logs.fields
    \/ logs.weight_type # "number"
    \/ logs.weight_kg <= 0
    \/ "calories_consumed" \notin logs.fields
    \/ /\ "steps" \notin logs.fields
       /\ ~(10 * logs.calories_consumed > 12 * TargetFor(logs))

\* C9: with an active plan present, a failure of the metrics computation
\* (invalid weight, missing log fields, absent log) ends EVALUATE with
\* replan_needed = true and the report of the failure, and the run goes on to
\* REPLAN.
C9_MetricFailureForcesReplan ==
    \A r \in Runs :
        (/\ Evaluated(r)
         /\ state[r].current_plan # None
         /\ MetricsFail(state[r].logs_data))
        => /\ state[r].replan_needed
           /\ state[r].progress_report = MetricFailedReport
           /\ pc[r] = "planning_agent"

\* C9 witness: a plan is present and the logged weight is not positive.
C9_InvalidWeightEvaluated ==
    \E r \in Runs :
        /\ Evaluated(r)
        /\ state[r].current_plan # None
        /\ state[r].logs_data # None
        /\ state[r].logs_data.fields = AllLogFields
        /\ state[r].logs_data.weight_type = "number"
        /\ state[r].logs_data.weight_kg = 0
        /\ state[r].replan_needed

GraphOrder == <<"fetch_data", "evaluate_progress", "planning_agent">>

\* The nodes run r has executed are the first nodes of FETCH, EVALUATE, REPLAN,
\* REPLAN was entered only after EVALUATE left replan_needed = true, and after
\* REPLAN only the save and END follow.
OnePass(r) ==
    /\ Len(hist[r].visited) <= 3
    /\ \A i \in DOMAIN hist[r].visited : hist[r].visited[i] = GraphOrder[i]
    /\ pc[r] = "evaluate_progress" => hist[r].visited = <<"fetch_data">>
    /\ pc[r] = "planning_agent" => Evaluated(r)
    /\ Visited(r, "planning_agent") =>
        /\ hist[r].eval_replan
        /\ pc[r] \in {"save_update_many", "save_insert_one", "END"}
    /\ pc[r] = "END" =>
        /\ hist[r].eval_done
        /\ Visited(r, "planning_agent") <=> hist[r].eval_replan

\* C10: every run is one pass FETCH, EVALUATE, then REPLAN or DONE: no node is
\* entered twice, REPLAN is entered iff EVALUATE left replan_needed = true,
\* REPLAN goes to DONE, and every started run reaches DONE.
C10_OnePassAndEnds ==
    /\ [](\A r \in Runs : OnePass(r))
    /\ \A r \in Runs : (pc[r] = "fetch_data") ~> (pc[r] = "END")

\* C10 witness: a run has gone through FETCH, EVALUATE and REPLAN to DONE.
C10_RunEndedAfterReplan ==
    \E r \in Runs : pc[r] = "END" /\ hist[r].visited = GraphOrder

----------------------------------------------------------------------------
(* calculate_metrics applied to arbitrary body metrics *)

CalcWeights == {0, 664, 700, 850}
CalcHeights == {160, 175, 190}
CalcAges == {30, 45}
CalcLevels == {"sedentary", "lightly active", "moderately active",
               "very active", "unknown"}
Genders == {"male", "female", "other"}

\* The state of Init, with one set of body metrics chosen for the calls.
InitMetrics ==
    /\ plans = <<>>
    /\ dbClient = "None"
    /\ uriSet = TRUE
    /\ clock = 0
    /\ started = 0
    /\ pc = [r \in Runs |-> "idle"]
    /\ state = [r \in Runs |-> IdleState]
    /\ pending = [r \in Runs |-> NoPending]
    /\ hist = [r \in Runs |-> NoHist]
    /\ saves = [u \in Users |-> NoSaves]
    /\ conn = <<>>
    /\ \E w \in CalcWeights, h \in CalcHeights, a \in CalcAges, l \in CalcLevels :
        calc = [weight_kg |-> w, height_cm |-> h, age_years |-> a,
                activity_level |-> l, results |-> {}]

\* calculate_metrics(weight_kg, height_cm, age_years, g, activity_level) is
\* called; a ValueError is recorded as the result with ok = FALSE.
CalculateMetrics(g) ==
    /\ \A res \in calc.results : res.gender # g
    /\ calc' = [calc EXCEPT !.results = @ \cup
                    {[gender |-> g,
                      metrics |-> calculate_metrics(calc.weight_kg, "number",
                                                    calc.height_cm, calc.age_years,
                                                    g, calc.activity_level)]}]
    /\ UNCHANGED <<plans, dbClient, uriSet, clock, started, pc, state, pending,
                   hist, saves, conn>>

NextMetrics == \E g \in Genders : CalculateMetrics(g)

SpecMetrics == InitMetrics /\ [][NextMetrics]_vars

\* C11: for the same weight, height, age and activity level, bmr_kcal for
\* "male" exceeds bmr_kcal for "female" by exactly 166.
C11_BmrGapIs166 ==
    \A m, f \in calc.results :
        (/\ m.gender = "male" /\ f.gender = "female"
         /\ m.metrics.ok /\ f.metrics.ok)
        => m.metrics.bmr_kcal - f.metrics.bmr_kcal = 166

----------------------------------------------------------------------------
(* Properties of the store, the connection and the final state *)

\* Run r takes the step it is at (label) in the transition.
Steps(r, label) == pc[r] = label /\ pc'[r] # label

\* C12: a step changes the store only by setting is_active from true to false
\* on plans of the user whose save is at update_many, or by appending the one
\* new record of the save that is at insert_one; no record is removed,
\* reactivated or changed in another field, and other users' records stay.
C12_SaveFrame ==
    [][/\ Len(plans') >= Len(plans)
       /\ Len(plans') <= Len(plans) + 1
       /\ \A i \in DOMAIN plans :
            \/ plans'[i] = plans[i]
            \/ /\ plans[i].is_active
               /\ plans'[i] = [plans[i] EXCEPT !.is_active = FALSE]
               /\ Len(plans') = Len(plans)
               /\ \E r \in Runs :
                    /\ Steps(r, "save_update_many")
                    /\ state[r].user_id = plans[i].user_id
       /\ Len(plans') = Len(plans) + 1 =>
            \E r \in Runs :
                /\ Steps(r, "save_insert_one")
                /\ plans'[Len(plans')].user_id = state[r].user_id
                /\ plans'[Len(plans')].is_active
      ]_vars

\* C12 witness: a user's second save has deactivated the first plan while the
\* plan another user saved in between is still stored and active.
C12_SavedBesideOtherUser ==
    \E i, j, k \in DOMAIN plans :
        /\ i < j /\ j < k
        /\ plans[i].user_id = plans[k].user_id
        /\ plans[j].user_id # plans[i].user_id
        /\ ~plans[i].is_active
        /\ plans[j].is_active
        /\ plans[k].is_active

MaxCalls == 13          \* get_mongo_client calls explored

\* The state of Init, with or without MONGODB_URI.
InitConn ==
    /\ plans = <<>>
    /\ dbClient = "None"
    /\ uriSet \in BOOLEAN
    /\ clock = 0
    /\ started = 0
    /\ pc = [r \in Runs |-> "idle"]
    /\ state = [r \in Runs |-> IdleState]
    /\ pending = [r \in Runs |-> NoPending]
    /\ hist = [r \in Runs |-> NoHist]
    /\ saves = [u \in Users |-> NoSaves]
    /\ calc = NoCalc
    /\ conn = <<>>

\* get_mongo_client() is called (by get_collection, which passes the client
\* or the exception on).
GetMongoClient ==
    /\ Len(conn) < MaxCalls
    /\ \E c \in get_mongo_client(dbClient, uriSet) :
        /\ dbClient' = c.client
        /\ conn' = Append(conn, [ok |-> c.ok, error |-> c.error,
                                 attempted |-> c.attempted,
                                 handle |-> c.client])
    /\ UNCHANGED <<plans, uriSet, clock, started, pc, state, pending, hist,
                   saves, calc>>

NextConn == GetMongoClient

SpecConn == InitConn /\ [][NextConn]_vars

\* C13: the connection is created lazily and at most once.  After the first
\* call that succeeds every call returns the client without a new attempt;
\* until then a call with a connection string makes an attempt and, when that
\* fails, raises ConnectionError and leaves the handle unset; without a
\* connection string every call raises ValueError and creates no client.
C13_LazySingleConnection ==
    /\ Cardinality({i \in DOMAIN conn : conn[i].attempted /\ conn[i].ok}) <= 1
    /\ dbClient = IF \E i \in DOMAIN conn : conn[i].ok THEN "client" ELSE "None"
    /\ \A i \in DOMAIN conn :
        LET c == conn[i]
            connected == \E j \in 1..(i - 1) : conn[j].ok
        IN  IF connected
            THEN c.ok /\ ~c.attempted /\ c.handle = "client"
            ELSE IF ~uriSet
            THEN /\ ~c.ok /\ c.error = "ValueError"
                 /\ ~c.attempted /\ c.handle = "None"
            ELSE /\ c.attempted
                 /\ \/ c.ok /\ c.handle = "client"
                    \/ ~c.ok /\ c.error = "ConnectionError" /\ c.handle = "None"

\* C13 witness: a failed attempt, then a successful one, then a call that
\* reuses the client.
C13_FailedThenConnectedThenReused ==
    \E i, j, k \in DOMAIN conn :
        /\ i < j /\ j < k
        /\ ~conn[i].ok /\ conn[i].attempted
        /\ conn[j].ok /\ conn[j].attempted
        /\ conn[k].ok /\ ~conn[k].attempted

----------------------------------------------------------------------------
(* evaluate_progress_node applied to the logs the mock provider can produce *)

\* get_daily_logs: round(85.0 + uniform(-1.0, 1.0), 1), randint(2000, 2600),
\* randint(6000, 14000).  Every weight and every calorie value is taken; of
\* the steps, which are only compared with 5000, the ends and a middle value.
MockWeights == 840..860
MockCalories == 2000..2600
MockSteps == {6000, 10000, 14000}

MockLogs ==
    {DailyLog(w, c, s) : w \in MockWeights, c \in MockCalories, s \in MockSteps}

\* A run that has left fetch_data with an active plan and a log of the mock
\* provider.
InitMock ==
    /\ plans = <<>>
    /\ dbClient = "client"
    /\ uriSet = TRUE
    /\ clock = 0
    /\ started = 1
    /\ pending = [r \in Runs |-> NoPending]
    /\ saves = [u \in Users |-> NoSaves]
    /\ calc = NoCalc
    /\ conn = <<>>
    /\ \E p \in EvalPlans \ {None}, l \in MockLogs :
        /\ pc = [r \in Runs |-> IF r = "r1" THEN "evaluate_progress" ELSE "idle"]
        /\ state = [r \in Runs |->
                      IF r = "r1"
                      THEN [initial_state("kiit0001") EXCEPT
                                !.current_plan = p,
                                !.logs_data = l,
                                !.llm_context = <<"USER PROFILE",
                                                  "CURRENT ACTIVE PLAN",
                                                  "TODAY'S LOGS">>]
                      ELSE IdleState]
        /\ hist = [r \in Runs |->
                      IF r = "r1" THEN Visit(NoHist, "fetch_data") ELSE NoHist]

SpecMock == InitMock /\ [][NextEval]_vars

\* C14: with a log of the mock provider and the fixed profile, a run that
\* loaded an active plan has calories <= 1.2 x target and steps >= 5000, ends
\* EVALUATE with replan_needed = false, does not enter REPLAN and writes no plan.
C14_MockLogsNeverReplan ==
    \A r \in Runs :
        (/\ Evaluated(r)
         /\ state[r].current_plan # None
         /\ state[r].logs_data \in MockLogs)
        => /\ 10 * state[r].logs_data.calories_consumed
                <= 12 * TargetFor(state[r].logs_data)
           /\ state[r].logs_data.steps >= 5000
           /\ ~state[r].replan_needed
           /\ state[r].progress_report
                = Report("Progress is adequate. Maintaining current plan.")
           /\ pc[r] = "END"
           /\ hist[r].llm_calls = 0
           /\ hist[r].save_calls = 0

\* C14 witness: the lightest weight (lowest target), the most calories and the
\* fewest steps the provider can produce have been evaluated.
C14_WorstMockLogEvaluated ==
    \E r \in Runs :
        /\ Evaluated(r)
        /\ state[r].current_plan # None
        /\ state[r].logs_data = DailyLog(840, 2600, 6000)
        /\ pc[r] = "END"


\* C15: the final state of every run has replan_needed = false, also when
\* REPLAN was entered and failed without a plan being persisted.
C15_FinalFlagIsFalse ==
    \A r \in Runs : pc[r] = "END" => ~state[r].replan_needed

\* C15 witness: a run that EVALUATE sent to REPLAN, whose Planning Engine call
\* failed, is at END with nothing saved.
C15_FailedReplanEnded ==
    \E r \in Runs :
        /\ pc[r] = "END"
        /\ hist[r].eval_replan
        /\ Visited(r, "planning_agent")
        /\ hist[r].llm_outcome = "error"
        /\ hist[r].save_calls = 0
        /\ state[r].plan_data = None

====
